---- MODULE Spec2Model ----
(***************************************************************************)
(* Model of app_with_ontology.py: the POST /api/solve handler of the       *)
(* Newton's-second-law tutor, its solver, error classifier, unit check and *)
(* hint selection, and the ontology (knowledge base) they share.           *)
(*                                                                         *)
(* Numbers are exact rationals <<n, d>> with d > 0 in lowest terms.        *)
(* Python's None is the empty tuple <<>>; a present optional value is the  *)
(* value itself.  Unit strings are tuples of one-character strings, so     *)
(* that Python's substring test `sym in s` is computed, not assumed.       *)
(***************************************************************************)
EXTENDS Integers, Sequences, FiniteSets, TLC

VARIABLES
    onto,       \* the module-level ontology: loaded?, named entries, created individuals
    pc,         \* per handler thread: position in solve()
    request,    \* per handler thread: the JSON body being served
    frame,      \* per handler thread: the local variables of solve()
    response,   \* per handler thread: the (status, JSON body) returned
    history     \* per handler thread: observation of the current request (stages, bound slots, solver writes)

vars == <<onto, pc, request, frame, response, history>>

\* ------------------------------------------------------------------ bounds
NumThreads == 2
MaxProblems == 2

Threads == 1..NumThreads

\* ------------------------------------------------------------------ values
None == <<>>

Abs(x) == IF x < 0 THEN -x ELSE x

RECURSIVE Gcd(_, _)
Gcd(a, b) == IF b = 0 THEN a ELSE Gcd(b, a % b)

\* the rational n/d in lowest terms with a positive denominator (d # 0)
Rat(n, d) ==
    LET g == Gcd(Abs(n), Abs(d))
        s == IF d < 0 THEN -1 ELSE 1
    IN  <<(s * n) \div g, (s * d) \div g>>

Zero == Rat(0, 1)

\* arithmetic on fractions; results are brought to lowest terms by Rat where they
\* are stored or compared for equality, comparisons are by cross-multiplication
\* (denominators positive)
RSub(x, y) == <<x[1] * y[2] - y[1] * x[2], x[2] * y[2]>>
RMul(x, y) == <<x[1] * y[1], x[2] * y[2]>>
RQuot(x, y) == <<x[1] * y[2], x[2] * y[1]>>
RAbs(x) == <<Abs(x[1]), Abs(x[2])>>
Norm(x) == Rat(x[1], x[2])
RLe(x, y) == x[1] * y[2] <= y[1] * x[2]
RGt(x, y) == x[1] * y[2] > y[1] * x[2]

\* the literals 0.01 and 0.05 of classify_error
Tol_none == Rat(1, 100)
Tol_math == Rat(5, 100)

\* ------------------------------------------------------------------ strings
S_N == <<"N">>
S_kg == <<"k", "g">>
S_ms == <<"m", "/", "s">>

\* Python `sub in s`
Contains(sub, s) ==
    \E i \in 0..(Len(s) - Len(sub)) : SubSeq(s, i + 1, i + Len(sub)) = sub

\* str.lower() on the target names a request may carry
lower(s) ==
    CASE s = "Force" -> "force"
      [] s = "MASS" -> "mass"
      [] OTHER -> s

\* ------------------------------------------------------------------ JSON inputs
\* a JSON value is <<kind, n, d>>: a number n/d, a numeric string "n/d",
\* a non-numeric string, or null / an absent key
JNum(n, d) == <<"num", n, d>>
JStr(n, d) == <<"numstr", n, d>>
JText == <<"text", 0, 1>>
JNull == <<"null", 0, 1>>

to_float(x) ==
    IF x[1] \in {"num", "numstr"} THEN Rat(x[2], x[3]) ELSE None

\* ------------------------------------------------------------------ the ontology
UnitEntries == {"Kilogram", "Newton", "MeterPerSecondSquared"}
HintEntries == {"Hint_Units", "Hint_Formula", "Hint_Arithmetic"}
FormulaEntries == {"F_equals_m_a", "a_equals_F_div_m", "m_equals_F_div_a"}
AllEntries == UnitEntries \cup HintEntries \cup FormulaEntries

\* contents the ontology file may have at startup (classes are always there;
\* the named individuals are what the code tests for before use)
KBContents ==
    { AllEntries,
      AllEntries \ UnitEntries,
      AllEntries \ HintEntries,
      AllEntries \ {"Newton", "Hint_Units", "m_equals_F_div_a"},
      {} }

\* onto = None after a failed load (lines 68-75)
OntoNone == [loaded |-> FALSE, entries |-> {}, individuals |-> <<>>]

\* onto.<name>: the entity, or None when the ontology has no such entity
Entity(name) == IF name \in onto.entries THEN <<name>> ELSE None
hasattr(name) == name \in onto.entries

\* <hint individual>.displayText[0]
displayText(name) ==
    CASE name = "Hint_Units" -> "ontology: Hint_Units.displayText"
      [] name = "Hint_Formula" -> "ontology: Hint_Formula.displayText"
      [] name = "Hint_Arithmetic" -> "ontology: Hint_Arithmetic.displayText"

\* the built-in hint texts (in ASCII: the source's dash and multiplication sign
\* are written - and x)
Builtin_unit == "Check your units: use N for force, kg for mass, and m/s^2 for acceleration."
Builtin_math == "Re-check your calculation - did you multiply or divide correctly?"
Builtin_generic == "Think about which variable is missing and how to rearrange F = m x a."

get_unit_individual(kind) ==
    IF ~onto.loaded THEN None
    ELSE IF lower(kind) = "mass" THEN Entity("Kilogram")
    ELSE IF lower(kind) = "force" THEN Entity("Newton")
    ELSE IF lower(kind) = "acceleration" THEN Entity("MeterPerSecondSquared")
    ELSE None

\* the per-category built-in text used whenever the ontology has no entry
get_hint_builtin_per_category(error_type) ==
    IF error_type = "unit"
    THEN IF onto.loaded /\ hasattr("Hint_Units") THEN displayText("Hint_Units") ELSE Builtin_unit
    ELSE IF error_type = "formula" /\ onto.loaded /\ hasattr("Hint_Formula")
    THEN displayText("Hint_Formula")
    ELSE IF error_type = "math"
    THEN IF onto.loaded /\ hasattr("Hint_Arithmetic")
         THEN displayText("Hint_Arithmetic") ELSE Builtin_math
    ELSE Builtin_generic

get_hint_from_ontology(error_type) ==
    IF ~onto.loaded THEN
        IF error_type = "unit" THEN Builtin_unit
        ELSE IF error_type = "math" THEN Builtin_math
        ELSE Builtin_generic
    ELSE IF error_type = "unit" /\ hasattr("Hint_Units") THEN displayText("Hint_Units")
    ELSE IF error_type = "formula" /\ hasattr("Hint_Formula") THEN displayText("Hint_Formula")
    ELSE IF error_type = "math" /\ hasattr("Hint_Arithmetic") THEN displayText("Hint_Arithmetic")
    ELSE Builtin_generic

choose_formula_for_target(target) ==
    IF ~onto.loaded THEN None
    ELSE LET t == lower(target) IN
        IF t = "force" /\ hasattr("F_equals_m_a") THEN Entity("F_equals_m_a")
        ELSE IF t = "acceleration" /\ hasattr("a_equals_F_div_m") THEN Entity("a_equals_F_div_m")
        ELSE IF t = "mass" /\ hasattr("m_equals_F_div_a") THEN Entity("m_equals_F_div_a")
        ELSE None

\* ------------------------------------------------------------------ arithmetic
ZeroDivisionError == <<"ZeroDivisionError">>

compute_force(mass, accel) == Norm(RMul(mass, accel))

compute_accel(force, mass) ==
    IF mass = Zero THEN ZeroDivisionError ELSE Norm(RQuot(force, mass))

\* the product taken where the quotient is meant
compute_mass_product(force, accel) ==
    IF accel = Zero THEN ZeroDivisionError ELSE Norm(RMul(force, accel))

compute_mass(force, accel) ==
    IF accel = Zero THEN ZeroDivisionError ELSE Norm(RQuot(force, accel))

\* the 1% band taken as open: diff < 0.01
classify_error_strict(student_value, correct_value) ==
    IF student_value = None THEN "missing"
    ELSE IF correct_value = None THEN "other"
    ELSE LET diff == IF correct_value = Zero
                     THEN RAbs(RSub(student_value, correct_value))
                     ELSE RQuot(RAbs(RSub(student_value, correct_value)), RAbs(correct_value))
         IN  IF ~RLe(Tol_none, diff) THEN "none"
             ELSE IF RGt(diff, Tol_math) THEN "math"
             ELSE "other"

classify_error(student_value, correct_value) ==
    IF student_value = None THEN "missing"
    ELSE IF correct_value = None THEN "other"
    ELSE LET diff == IF correct_value = Zero
                     THEN RAbs(RSub(student_value, correct_value))
                     ELSE RQuot(RAbs(RSub(student_value, correct_value)), RAbs(correct_value))
         IN  IF RLe(diff, Tol_none) THEN "none"
             ELSE IF RGt(diff, Tol_math) THEN "math"
             ELSE "other"

\* ------------------------------------------------------------------ individuals
\* a quantity individual: its hasUnit list (the unit appended when the ontology
\* has it) and its numericalValue list
Quantity(unit) ==
    [hasUnit |-> unit, numericalValue |-> <<>>]

\* an absent value read as 0.0
ValueOf_default_zero(ind) ==
    IF Len(ind.numericalValue) > 0 THEN ind.numericalValue[1] ELSE Zero

\* a truthiness test on the value itself: 0.0 read as absent
ValueOf_falsy_zero(ind) ==
    IF Len(ind.numericalValue) > 0 /\ ind.numericalValue[1] # Zero
    THEN ind.numericalValue[1]
    ELSE None

\* the value read at lines 240-242: float(x.numericalValue[0]) or None
ValueOf(ind) ==
    IF Len(ind.numericalValue) > 0 THEN ind.numericalValue[1] ELSE None

Msg_force == "Mass and acceleration are required to compute force."
Msg_accel == "Force and mass are required to compute acceleration."
Msg_mass == "Force and acceleration are required to compute mass."
Msg_target == "Invalid target"
Msg_zero == "Division by zero - check your input values."
Msg_onto == "Ontology not available; cannot perform intelligent reasoning."

\* the value appended to the property list instead of replacing it
WriteBack_append(ind, v) == [ind EXCEPT !.numericalValue = Append(@, v)]

\* lines 250, 256, 262: <individual>.numericalValue = [correct_value]
WriteBack(ind, v) == [ind EXCEPT !.numericalValue = <<v>>]

Raise(exc, msg, mass, accel, force) ==
    [raised |-> exc, message |-> msg, value |-> None,
     mass |-> mass, accel |-> accel, force |-> force, writes |-> 0]

\* solve_with_ontology: the exception raised ("" for none), the value returned
\* and the three individuals as the call leaves them
solve_with_ontology(target, mass, accel, force) ==
    LET m_val == ValueOf(mass)
        a_val == ValueOf(accel)
        f_val == ValueOf(force)
        Return(v, m, a, f) ==
            [raised |-> "", message |-> "", value |-> v,
             mass |-> m, accel |-> a, force |-> f, writes |-> 1]
    IN  IF target = "force" THEN
            IF m_val = None \/ a_val = None
            THEN Raise("ValueError", Msg_force, mass, accel, force)
            ELSE LET v == compute_force(m_val, a_val)
                 IN  Return(v, mass, accel, WriteBack(force, v))
        ELSE IF target = "acceleration" THEN
            IF f_val = None \/ m_val = None
            THEN Raise("ValueError", Msg_accel, mass, accel, force)
            ELSE LET v == compute_accel(f_val, m_val)
                 IN  IF Len(v) = 1
                     THEN Raise("ZeroDivisionError", "", mass, accel, force)
                     ELSE Return(v, mass, WriteBack(accel, v), force)
        ELSE IF target = "mass" THEN
            IF f_val = None \/ a_val = None
            THEN Raise("ValueError", Msg_mass, mass, accel, force)
            ELSE LET v == compute_mass(f_val, a_val)
                 IN  IF Len(v) = 1
                     THEN Raise("ZeroDivisionError", "", mass, accel, force)
                     ELSE Return(v, WriteBack(mass, v), accel, force)
        ELSE Raise("ValueError", Msg_target, mass, accel, force)

\* a NumericProblem individual with its formula and three quantity individuals
Problem(formula, m_ind, a_ind, f_ind) ==
    [usesFormula |-> formula, mass |-> m_ind, acceleration |-> a_ind, force |-> f_ind]

NoProblem == Problem(None, Quantity(None), Quantity(None), Quantity(None))

\* create_problem_from_request, lines 178-208: the individuals as created
NewProblem(target) ==
    Problem(choose_formula_for_target(target),
            Quantity(get_unit_individual("mass")),
            Quantity(get_unit_individual("acceleration")),
            Quantity(get_unit_individual("force")))

\* create_problem_from_request, lines 217-228: the known values attached
Bind(ind, raw) ==
    IF to_float(raw) # None
    THEN [ind EXCEPT !.numericalValue = <<to_float(raw)>>]
    ELSE ind

BoundProblem(prob, given) ==
    [prob EXCEPT !.mass = Bind(prob.mass, given.mass),
                 !.acceleration = Bind(prob.acceleration, given.acceleration),
                 !.force = Bind(prob.force, given.force)]

\* ------------------------------------------------------------------ the verdict
\* lines 316-328: TRUE when the unit check flags the student's unit
unit_mismatch(target, student_unit) ==
    LET expected_unit == get_unit_individual(target)
    IN  /\ expected_unit # None
        /\ student_unit # <<>>
        /\ \/ target = "force" /\ ~Contains(S_N, student_unit)
           \/ target = "mass" /\ ~Contains(S_kg, student_unit)
           \/ target = "acceleration" /\ ~Contains(S_ms, student_unit)

\* numeric classification consulted first, the unit check only for a right value
error_type_numeric_first(target, student_unit, student_value, correct_value) ==
    IF classify_error(student_value, correct_value) # "none"
    THEN classify_error(student_value, correct_value)
    ELSE IF unit_mismatch(target, student_unit) THEN "unit" ELSE "none"

\* lines 317-331: the final error_type
error_type_of(target, student_unit, student_value, correct_value) ==
    IF unit_mismatch(target, student_unit)
    THEN "unit"
    ELSE classify_error(student_value, correct_value)

\* the unclassifiable band counted as correct
is_correct_lenient(error_type) == error_type \in {"none", "other"}

\* line 333
is_correct_of(error_type) == error_type = "none"

\* lines 336-341: the hint of a response that is not correct
hint_of(error_type) ==
    get_hint_from_ontology(IF error_type = "unit" THEN "unit"
                           ELSE IF error_type = "math" THEN "math"
                           ELSE IF error_type = "formula" THEN "formula"
                           ELSE "other")

\* ------------------------------------------------------------------ responses
NoResponse == [status |-> 0, body |-> <<>>]
ErrorResponse(code, msg) == [status |-> code, body |-> [error |-> msg]]
OkResponse(f) ==
    [status |-> 200,
     body |-> [correct |-> f.is_correct, correctValue |-> f.correct_value,
               target |-> f.target, errorType |-> f.error_type, hint |-> f.hint]]

\* ------------------------------------------------------------------ requests
RawTargets == {"force", "acceleration", "mass", "energy", "Force"}
GivenMass == {JNull, JText, JNum(0, 1), JNum(4, 1), JNum(-4, 1)}
GivenAccel == {JNull, JNum(0, 1), JStr(3, 1)}
GivenForce == {JNull, JNum(0, 1), JNum(12, 1)}
StudentValues ==
    { JNull, JText, JNum(12, 1), JNum(11, 1), JNum(-11, 1), JNum(303, 25), JNum(297, 25),
      JNum(123, 10), JNum(63, 5), JNum(31503, 2500), JNum(0, 1), JNum(1, 100),
      JNum(1, 20), JNum(1, 1), JStr(3, 1), JNum(4, 1) }
StudentUnits ==
    { <<>>, S_N, S_kg, <<"m", "/", "s", "^", "2">>, <<"k", "N">> }

Requests ==
    [target : RawTargets,
     given : [mass : GivenMass, acceleration : GivenAccel, force : GivenForce],
     studentAnswer : [value : StudentValues, unit : StudentUnits]]

Req(target, m, a, f, sv, su) ==
    [target |-> target, given |-> [mass |-> m, acceleration |-> a, force |-> f],
     studentAnswer |-> [value |-> sv, unit |-> su]]

\* the requests of the serving specification
ServeRequests ==
    { Req("force", JNum(4, 1), JNum(3, 1), JNull, JNum(11, 1), S_N),
      Req("force", JNum(4, 1), JNum(3, 1), JNum(99, 1), JNum(12, 1), S_kg),
      Req("acceleration", JNum(4, 1), JNum(7, 1), JNum(12, 1), JNum(3, 1), <<>>),
      Req("mass", JNum(5, 1), JStr(3, 1), JNum(12, 1), JNum(4, 1), S_kg),
      Req("mass", JNull, JNum(0, 1), JNum(12, 1), JNum(4, 1), S_kg),
      Req("acceleration", JNull, JNull, JNum(12, 1), JNull, <<>>),
      Req("energy", JNum(4, 1), JNum(3, 1), JNull, JNum(12, 1), <<>>) }

NoRequest == Req("", JNull, JNull, JNull, JNull, <<>>)

\* ------------------------------------------------------------------ state
EmptyFrame ==
    [target |-> "", p |-> 0, correct_value |-> None, student_value |-> None,
     student_unit |-> <<>>, error_type |-> "none", is_correct |-> FALSE, hint |-> None]

NoHistory == [trace |-> <<>>, bound |-> NoProblem, writes |-> 0]

Init ==
    /\ onto \in {OntoNone} \cup
                {[loaded |-> TRUE, entries |-> e, individuals |-> <<>>] : e \in KBContents}
    /\ pc = [t \in Threads |-> "Idle"]
    /\ request = [t \in Threads |-> NoRequest]
    /\ frame = [t \in Threads |-> EmptyFrame]
    /\ response = [t \in Threads |-> NoResponse]
    /\ history = [t \in Threads |-> NoHistory]

Stage(t, name) == [history EXCEPT ![t].trace = Append(@, name)]

\* the problems being or about to be created: caps the individuals of a run
InFlight == Cardinality({u \in Threads : pc[u] = "Received"})

\* lines 287-291: a request (one of reqs) arrives and its fields are read
Receive(t, reqs) ==
    /\ pc[t] = "Idle"
    /\ Len(onto.individuals) + InFlight < MaxProblems
    /\ \E r \in reqs :
        /\ request' = [request EXCEPT ![t] = r]
        /\ frame' = [frame EXCEPT ![t] = [EmptyFrame EXCEPT !.target = lower(r.target)]]
    /\ response' = [response EXCEPT ![t] = NoResponse]
    /\ history' = [history EXCEPT ![t] = NoHistory]
    /\ pc' = [pc EXCEPT ![t] = "Received"]
    /\ UNCHANGED onto

\* lines 294-296 with 175-208: the problem and its quantity individuals are
\* created in the ontology, or the request ends with 500 when there is none
CreateProblem(t) ==
    /\ pc[t] = "Received"
    /\ IF ~onto.loaded
       THEN /\ response' = [response EXCEPT ![t] = ErrorResponse(500, Msg_onto)]
            /\ pc' = [pc EXCEPT ![t] = "Responded"]
            /\ history' = Stage(t, "Responded")
            /\ UNCHANGED <<onto, frame>>
       ELSE /\ onto' = [onto EXCEPT !.individuals = Append(@, NewProblem(frame[t].target))]
            /\ frame' = [frame EXCEPT ![t].p = Len(onto.individuals) + 1]
            /\ pc' = [pc EXCEPT ![t] = "Created"]
            /\ history' = Stage(t, "Created")
            /\ UNCHANGED response
    /\ UNCHANGED request

\* lines 210-230: the given values are attached to the quantity individuals
BindQuantities(t) ==
    /\ pc[t] = "Created"
    /\ LET p == frame[t].p
           bound == BoundProblem(onto.individuals[p], request[t].given)
       IN  /\ onto' = [onto EXCEPT !.individuals[p] = bound]
           /\ history' = [history EXCEPT ![t].trace = Append(@, "QuantitiesBound"),
                                         ![t].bound = bound]
    /\ pc' = [pc EXCEPT ![t] = "QuantitiesBound"]
    /\ UNCHANGED <<request, frame, response>>

\* lines 298-304: the solver runs; its exceptions end the request with 400
SolveStep(t) ==
    /\ pc[t] = "QuantitiesBound"
    /\ LET p == frame[t].p
           prob == onto.individuals[p]
           r == solve_with_ontology(frame[t].target, prob.mass, prob.acceleration, prob.force)
       IN  /\ onto' = [onto EXCEPT !.individuals[p] =
                          [prob EXCEPT !.mass = r.mass, !.acceleration = r.accel,
                                       !.force = r.force]]
           /\ IF r.raised = "ValueError"
              THEN /\ response' = [response EXCEPT ![t] = ErrorResponse(400, r.message)]
                   /\ pc' = [pc EXCEPT ![t] = "Responded"]
                   /\ history' = [history EXCEPT ![t].trace = Append(@, "Responded"),
                                                 ![t].writes = @ + r.writes]
                   /\ UNCHANGED frame
              ELSE IF r.raised = "ZeroDivisionError"
              THEN /\ response' = [response EXCEPT ![t] = ErrorResponse(400, Msg_zero)]
                   /\ pc' = [pc EXCEPT ![t] = "Responded"]
                   /\ history' = [history EXCEPT ![t].trace = Append(@, "Responded"),
                                                 ![t].writes = @ + r.writes]
                   /\ UNCHANGED frame
              ELSE /\ frame' = [frame EXCEPT ![t].correct_value = r.value]
                   /\ pc' = [pc EXCEPT ![t] = "Solved"]
                   /\ history' = [history EXCEPT ![t].trace = Append(@, "Solved"),
                                                 ![t].writes = @ + r.writes]
                   /\ UNCHANGED response
    /\ UNCHANGED request

\* lines 306-333: the student's answer is read and judged
Classify(t) ==
    /\ pc[t] = "Solved"
    /\ LET student_value == to_float(request[t].studentAnswer.value)
           student_unit == request[t].studentAnswer.unit
           error_type == error_type_of(frame[t].target, student_unit, student_value,
                                       frame[t].correct_value)
       IN  frame' = [frame EXCEPT ![t].student_value = student_value,
                                  ![t].student_unit = student_unit,
                                  ![t].error_type = error_type,
                                  ![t].is_correct = is_correct_of(error_type)]
    /\ pc' = [pc EXCEPT ![t] = "Classified"]
    /\ history' = Stage(t, "Classified")
    /\ UNCHANGED <<onto, request, response>>

\* lines 335-341: a hint is attached to an answer that is not correct
AttachHint(t) ==
    /\ pc[t] = "Classified"
    /\ ~frame[t].is_correct
    /\ frame' = [frame EXCEPT ![t].hint = <<hint_of(frame[t].error_type)>>]
    /\ pc' = [pc EXCEPT ![t] = "HintAttached"]
    /\ history' = Stage(t, "HintAttached")
    /\ UNCHANGED <<onto, request, response>>

\* the result returned before the hint is put into it
Respond_without_hint(t) ==
    /\ \/ pc[t] = "HintAttached"
       \/ pc[t] = "Classified" /\ frame[t].is_correct
    /\ response' = [response EXCEPT ![t] =
           [status |-> 200,
            body |-> [correct |-> frame[t].is_correct,
                      correctValue |-> frame[t].correct_value,
                      target |-> frame[t].target, errorType |-> frame[t].error_type]]]
    /\ pc' = [pc EXCEPT ![t] = "Responded"]
    /\ history' = Stage(t, "Responded")
    /\ UNCHANGED <<onto, request, frame>>

\* lines 343-350: the result is returned
Respond(t) ==
    /\ \/ pc[t] = "HintAttached"
       \/ pc[t] = "Classified" /\ frame[t].is_correct
    /\ response' = [response EXCEPT ![t] = OkResponse(frame[t])]
    /\ pc' = [pc EXCEPT ![t] = "Responded"]
    /\ history' = Stage(t, "Responded")
    /\ UNCHANGED <<onto, request, frame>>

\* the handler has returned: its locals are gone and the thread serves again
Finish(t) ==
    /\ pc[t] = "Responded"
    /\ pc' = [pc EXCEPT ![t] = "Idle"]
    /\ request' = [request EXCEPT ![t] = NoRequest]
    /\ frame' = [frame EXCEPT ![t] = EmptyFrame]
    /\ response' = [response EXCEPT ![t] = NoResponse]
    /\ history' = [history EXCEPT ![t] = NoHistory]
    /\ UNCHANGED onto

Handle(t) ==
    \/ CreateProblem(t)
    \/ BindQuantities(t)
    \/ SolveStep(t)
    \/ Classify(t)
    \/ AttachHint(t)
    \/ Respond(t)

\* one request, of every shape, served by one thread
Next ==
    \/ Receive(1, Requests)
    \/ Handle(1)

Spec == Init /\ [][Next]_vars

\* requests served one after another and concurrently by the server's threads
ServeNext ==
    \E t \in Threads :
        \/ Receive(t, ServeRequests)
        \/ Handle(t)
        \/ Finish(t)

\* the serving specification starts without an ontology, with the whole one, or
\* with one that has none of the optional entries
ServeInit == Init /\ onto.entries \in {AllEntries, {}}

ServeSpec == ServeInit /\ [][ServeNext]_vars

\* requests served one after another by one thread
SeqNext ==
    \/ Receive(1, ServeRequests)
    \/ Handle(1)
    \/ Finish(1)

\* the handler is synchronous code: once entered, the thread runs it to its return
FairSeqSpec == Init /\ [][SeqNext]_vars /\ WF_vars(Handle(1))

\* ------------------------------------------------------------------ claims
Targets == {"mass", "acceleration", "force"}

\* the canonical symbol and the ontology's unit individual of a target
Symbol(target) ==
    CASE target = "force" -> S_N
      [] target = "mass" -> S_kg
      [] target = "acceleration" -> S_ms

UnitEntry(target) ==
    CASE target = "force" -> "Newton"
      [] target = "mass" -> "Kilogram"
      [] target = "acceleration" -> "MeterPerSecondSquared"

Ok(t) == response[t].status = 200
StudentValue(t) == to_float(request[t].studentAnswer.value)
StudentUnit(t) == request[t].studentAnswer.unit
WrongUnit(t) ==
    StudentUnit(t) # <<>> /\ ~Contains(Symbol(response[t].body.target), StudentUnit(t))

\* C1 as stated: in every 200 response, a non-empty student unit that does not
\* contain the target's symbol gives errorType "unit" and correct = false whatever
\* the value; otherwise errorType is what classify(studentValue, correctValue) gives.
C1_UnitPrecedence ==
    \A t \in Threads : Ok(t) =>
        IF WrongUnit(t)
        THEN response[t].body.errorType = "unit" /\ response[t].body.correct = FALSE
        ELSE response[t].body.errorType =
                 classify_error(StudentValue(t), response[t].body.correctValue)

\* C1 amended: the unit check runs only when the ontology holds the target's unit
\* individual; then a wrong non-empty unit gives "unit" and correct = false whatever
\* the value, and in every other case errorType is classify's result.
C1_UnitPrecedenceWhenUnitKnown ==
    \A t \in Threads : Ok(t) =>
        IF WrongUnit(t) /\ UnitEntry(response[t].body.target) \in onto.entries
        THEN response[t].body.errorType = "unit" /\ response[t].body.correct = FALSE
        ELSE response[t].body.errorType =
                 classify_error(StudentValue(t), response[t].body.correctValue)

\* a wrong unit on an exactly right value, answered "unit"
C1_Witness ==
    \E t \in Threads :
        /\ Ok(t) /\ WrongUnit(t)
        /\ StudentValue(t) = response[t].body.correctValue
        /\ response[t].body.errorType = "unit"

\* the three bands, by cross-multiplication on the integers
Band(s, c) ==
    IF s = None THEN "missing"
    ELSE IF c = None THEN "other"
    ELSE LET num == Abs(s[1] * c[2] - c[1] * s[2])
             den == IF c[1] = 0 THEN s[2] * c[2] ELSE s[2] * Abs(c[1])
         IN  IF 100 * num <= den THEN "none"
             ELSE IF 100 * num > 5 * den THEN "math"
             ELSE "other"

Judged(t) == pc[t] \in {"Classified", "HintAttached", "Responded"} /\ frame[t].p # 0
              /\ frame[t].correct_value # None

\* C2: classify follows the three-band model: absent student value "missing",
\* else absent correct value "other", else diff <= 0.01 "none", diff > 0.05
\* "math", and in between "other" (diff absolute when correct = 0, else relative).
C2_ThreeBands ==
    /\ \A t \in Threads :
        (Judged(t) /\ frame[t].error_type # "unit") =>
            frame[t].error_type = Band(frame[t].student_value, frame[t].correct_value)
    /\ \A x \in StudentValues :
        classify_error(to_float(x), None) = Band(to_float(x), None)

\* a relative error of exactly 0.01, judged "none"
C2_Witness ==
    \E t \in Threads :
        /\ Ok(t)
        /\ response[t].body.correctValue = Rat(12, 1)
        /\ StudentValue(t) = Rat(303, 25)
        /\ response[t].body.errorType = "none"

\* the given quantities of a request, as numbers or None
Given(t, kind) ==
    to_float(CASE kind = "mass" -> request[t].given.mass
               [] kind = "acceleration" -> request[t].given.acceleration
               [] kind = "force" -> request[t].given.force)

\* the solver has run for the request of t
AfterSolve(t) ==
    /\ frame[t].p # 0
    /\ pc[t] \in {"Solved", "Classified", "HintAttached", "Responded"}

SolveFailed(t, msg) == pc[t] = "Responded" /\ response[t] = ErrorResponse(400, msg)
SolvedWith(t, v) ==
    /\ frame[t].correct_value = v
    /\ response[t].status \in {0, 200}
    /\ Ok(t) => response[t].body.correctValue = v

\* C3: the solver's outcome depends on the target and the two other quantities
\* only: force -> m*a, acceleration -> f/m (m # 0), mass -> f/a (a # 0); a missing
\* required quantity fails with MissingInput (400), any other target with
\* "Invalid target" (400); the value returned is the response's correctValue.
C3_SolverOutcome ==
    \A t \in Threads : AfterSolve(t) =>
        LET tg == frame[t].target
            m == Given(t, "mass")
            a == Given(t, "acceleration")
            f == Given(t, "force")
        IN  /\ tg = "force" =>
                IF m = None \/ a = None THEN SolveFailed(t, Msg_force)
                ELSE SolvedWith(t, Rat(m[1] * a[1], m[2] * a[2]))
            /\ tg = "acceleration" =>
                IF f = None \/ m = None THEN SolveFailed(t, Msg_accel)
                ELSE m # Zero => SolvedWith(t, Rat(f[1] * m[2], f[2] * m[1]))
            /\ tg = "mass" =>
                IF f = None \/ a = None THEN SolveFailed(t, Msg_mass)
                ELSE a # Zero => SolvedWith(t, Rat(f[1] * a[2], f[2] * a[1]))
            /\ tg \notin Targets => SolveFailed(t, "Invalid target")

\* a mass solved as f/a, with a value given for the mass itself ignored
C3_Witness ==
    \E t \in Threads :
        /\ Ok(t) /\ response[t].body.target = "mass"
        /\ Given(t, "mass") = Rat(-4, 1)
        /\ Given(t, "force") = Rat(12, 1) /\ Given(t, "acceleration") = Rat(3, 1)
        /\ response[t].body.correctValue = Rat(4, 1)

ZeroDenominator(t) ==
    \/ /\ frame[t].target = "mass"
       /\ Given(t, "force") # None /\ Given(t, "acceleration") = Zero
    \/ /\ frame[t].target = "acceleration"
       /\ Given(t, "force") # None /\ Given(t, "mass") = Zero

\* C4: a zero denominator (target mass with acceleration 0, target acceleration
\* with mass 0, force present, force 0 included) ends the request with a 400 that
\* carries only an error message, distinct from the MissingInput and InvalidTarget
\* messages, and no correct, correctValue, errorType or hint field.
C4_DivisionByZero ==
    \A t \in Threads : (AfterSolve(t) /\ ZeroDenominator(t)) =>
        /\ pc[t] = "Responded"
        /\ response[t].status = 400
        /\ DOMAIN response[t].body = {"error"}
        /\ response[t].body.error \notin {Msg_force, Msg_accel, Msg_mass, Msg_target}

\* 0 / 0: force 0 over mass 0 answered with the division-by-zero error
C4_Witness ==
    \E t \in Threads :
        /\ frame[t].target = "acceleration"
        /\ Given(t, "force") = Zero /\ Given(t, "mass") = Zero
        /\ response[t] = ErrorResponse(400, Msg_zero)

StageRank(name) ==
    CASE name = "Created" -> 1
      [] name = "QuantitiesBound" -> 2
      [] name = "Solved" -> 3
      [] name = "Classified" -> 4
      [] name = "HintAttached" -> 5
      [] name = "Responded" -> 6

ResultFields == {"correct", "correctValue", "target", "errorType", "hint"}

\* the stages a request has entered are in the order of the state machine, each
\* once, and its response, once there, is whole
C6_Linear(t) ==
    LET tr == history[t].trace
    IN  /\ \A i \in 1..(Len(tr) - 1) : StageRank(tr[i]) < StageRank(tr[i + 1])
        /\ tr # <<>> => pc[t] = tr[Len(tr)]
        /\ (pc[t] = "Responded") = (response[t].status # 0)
        /\ response[t].status \in {0, 200, 400, 500}
        /\ response[t].status = 200 =>
              /\ DOMAIN response[t].body = ResultFields
              /\ tr \in { <<"Created", "QuantitiesBound", "Solved", "Classified",
                            "Responded">>,
                          <<"Created", "QuantitiesBound", "Solved", "Classified",
                            "HintAttached", "Responded">> }
        /\ response[t].status = 400 =>
              /\ DOMAIN response[t].body = {"error"}
              /\ tr = <<"Created", "QuantitiesBound", "Responded">>
        /\ response[t].status = 500 =>
              /\ DOMAIN response[t].body = {"error"}
              /\ tr = <<"Responded">>

\* a response, once given, is the request's last word: it stays as it is until
\* the handler's frame is dropped
C6_Terminal(t) ==
    pc[t] = "Responded" =>
        \/ pc'[t] = "Responded" /\ response'[t] = response[t]
        \/ pc'[t] = "Idle"

\* C6: a request passes Created, QuantitiesBound, Solved, Classified,
\* HintAttached (optional), Responded in that order, no stage twice, and always
\* ends in exactly one response; a failed solve goes straight to the error
\* response, never through Classified or HintAttached; a response is the whole
\* five-field result or a single error object.
C6_RequestLifecycle ==
    /\ [](\A t \in Threads : C6_Linear(t))
    /\ [][\A t \in Threads : C6_Terminal(t)]_vars
    /\ \A t \in Threads : (pc[t] = "Received") ~> (pc[t] = "Responded")

\* a solve that failed on a zero denominator, responded without being classified
C6_Witness ==
    \E t \in Threads :
        /\ response[t] = ErrorResponse(400, Msg_zero)
        /\ history[t].trace = <<"Created", "QuantitiesBound", "Responded">>

\* C7: serving requests leaves the ontology exactly as startup loading left it:
\* no request adds, removes or changes anything in it.
C7_KnowledgeBaseReadOnly == onto.individuals = <<>>

Slot(prob, target) ==
    CASE target = "mass" -> prob.mass
      [] target = "acceleration" -> prob.acceleration
      [] target = "force" -> prob.force

Solved(t) == AfterSolve(t) /\ response[t].status \in {0, 200}

\* C8 as stated: a problem solved successfully has its target among mass,
\* acceleration, force, and the target's slot had no value when it was created.
C8_TargetSlotStartsEmpty ==
    \A t \in Threads : Solved(t) =>
        /\ frame[t].target \in Targets
        /\ Slot(history[t].bound, frame[t].target).numericalValue = <<>>

\* C8 amended: a problem solved successfully has its target among mass,
\* acceleration, force, and the two other slots had values when it was created;
\* the target's own slot holds whatever the request gave for it (a value or none)
\* and a given value does not prevent the solve: the solver overwrites it.
C8_OtherSlotsStartFilled ==
    \A t \in Threads : Solved(t) =>
        /\ frame[t].target \in Targets
        /\ \A k \in Targets \ {frame[t].target} :
              /\ Given(t, k) # None
              /\ Slot(history[t].bound, k).numericalValue = <<Given(t, k)>>
        /\ Slot(history[t].bound, frame[t].target).numericalValue =
              IF Given(t, frame[t].target) = None THEN <<>>
              ELSE <<Given(t, frame[t].target)>>

\* a force solved although the request gave a force
C8_Witness ==
    \E t \in Threads :
        /\ Ok(t) /\ response[t].body.target = "force"
        /\ Slot(history[t].bound, "force").numericalValue = <<Rat(12, 1)>>
        /\ response[t].body.correctValue = Rat(0, 1)

\* C9: the solver writes the target's slot, once, with the computed value and
\* leaves the two other slots as they were bound; a failed solve leaves all
\* three slots as they were bound.
C9_SolverFrame ==
    \A t \in Threads : AfterSolve(t) =>
        LET prob == onto.individuals[frame[t].p]
            bound == history[t].bound
        IN  IF response[t].status = 400
            THEN prob = bound /\ history[t].writes = 0
            ELSE /\ history[t].writes = 1
                 /\ Slot(prob, frame[t].target).numericalValue = <<frame[t].correct_value>>
                 /\ \A k \in Targets \ {frame[t].target} : Slot(prob, k) = Slot(bound, k)
                 /\ prob.usesFormula = bound.usesFormula

\* a solved force whose slot was bound with another value, while another thread
\* has a problem of its own in the ontology
C9_Witness ==
    \E t \in Threads :
        /\ Ok(t) /\ frame[t].target = "force"
        /\ Slot(history[t].bound, "force").numericalValue = <<Rat(99, 1)>>
        /\ onto.individuals[frame[t].p].force.numericalValue = <<Rat(12, 1)>>
        /\ \E u \in Threads \ {t} : frame[u].p # 0

\* C10: in every 200 response correct is true exactly when errorType is "none",
\* hint is null exactly when errorType is "none", and errorType is one of none,
\* missing, math, unit, other.
C10_VerdictFieldsAgree ==
    \A t \in Threads : Ok(t) =>
        /\ response[t].body.correct = (response[t].body.errorType = "none")
        /\ (response[t].body.hint = None) = (response[t].body.errorType = "none")
        /\ response[t].body.errorType \in {"none", "missing", "math", "unit", "other"}

\* a small deviation: errorType "other", not correct, with a hint
C10_Witness ==
    \E t \in Threads :
        /\ Ok(t) /\ response[t].body.errorType = "other"
        /\ response[t].body.correct = FALSE
        /\ response[t].body.hint # None

====
